---------------------------- MODULE Spec2Model ----------------------------
(***************************************************************************)
(* The client-side remote build driver of icecream (client/remote.cpp):    *)
(* build_remote, maybe_build_local, build_remote_int, write_server_cpp,    *)
(* receive_fd / receive_file, get_server and md5_for_file, as a state      *)
(* machine over the file system, the executor frames, the replica child    *)
(* processes and the driver (the parent process).                          *)
(*                                                                         *)
(* The driver record holds the locals of build_remote and two records of   *)
(* what happened: md5s, the digests of all output files when the wait loop *)
(* ended, and alloc, the slots whose temp output was created.  A child     *)
(* keeps the exit code it was reaped with.                                 *)
(*                                                                         *)
(* A frame p is one run of maybe_build_local / build_remote_int.  With     *)
(* torepeat = 1 frame 0 runs inside the driver; with torepeat = 3 frame i  *)
(* runs in the forked child of slot i and is gone when the child ends.     *)
(* A frame carries the arguments of its call: the slot of its job, the     *)
(* preproc_file and output arguments, and whether the job is streaming.    *)
(*                                                                         *)
(* Every read of a channel, every send and every system call that can fail *)
(* draws its outcome from the outcomes the code distinguishes.             *)
(*                                                                         *)
(* The helpers get_absfilename, parse_icecc_version and rip_out_paths are  *)
(* functions of their arguments; the variable call holds the arguments and *)
(* the results of a call of one of them, made with the driver at rest.     *)
(***************************************************************************)
EXTENDS Integers, Sequences, FiniteSets, TLC

VARIABLES job, fs, fr, drv, kid, call

vars == <<job, fs, fr, drv, kid, call>>

---------------------------------------------------------------------------
(* Bounds of the model.                                                    *)

\* FileChunk messages a remote sends on one channel, single build
MaxChunks == 2
\* FileChunk messages a remote sends on one channel, replicated build
MaxReplChunks == 1
\* FileChunk messages write_server_cpp sends for one source
MaxSrcChunks == 1
\* messages the catch handler's drain loop reads before the channel is empty
MaxDrain == 1
\* characters of a path handed to get_absfilename
MaxPathLen == 5
\* items of ICECC_VERSION
MaxItems == 2

---------------------------------------------------------------------------
(* Program constants.                                                      *)

\* exit_codes[i] = 42 (init)
Sentinel == 42
\* torepeat = 3
Replicas == 3
\* st.st_size < 500
MinSize == 500

Slots == 0 .. (Replicas - 1)

\* payloads of the FileChunk messages a remote sends: two in the single
\* build, where the order of the chunks shows, one in the replicated build
Bytes == {1, 2}

ReplBytes == {1}

\* a path that does not exist
NoFile == <<-1>>
\* what a file left by an earlier run holds, and what the preprocessor writes
OldData == <<0>>
\* a file that exists and is empty (dcc_make_tmpnam creates its file)
Empty == <<>>
\* the object build_local writes
LocalObj == <<1>>

Kinds == {"out", "out_icetmp", "out.caught", "dwo", "dwo_icetmp", "dwo.caught"}

Paths == (Kinds \X Slots) \cup {<<"preproc", 0>>, <<"preproc.caught", 0>>}

\* jobs[p].outputFile(): the requested output for slot 0, a temp .o otherwise
Out(p) == <<"out", p>>

Preproc == <<"preproc", 0>>

\* outputFile().substr(0, outputFile().find_last_of('.')) + ".dwo"
DwoOf(path) == <<"dwo", path[2]>>

\* output_file + "_icetmp"
IceTmp(path) == <<IF path[1] = "out" THEN "out_icetmp" ELSE "dwo_icetmp", path[2]>>

\* path + ".caught"
Caught(path) ==
    IF path[1] = "preproc" THEN <<"preproc.caught", 0>>
    ELSE <<IF path[1] = "out" THEN "out.caught" ELSE "dwo.caught", path[2]>>

Unlink(f, path) == [f EXCEPT ![path] = NoFile]

\* rename(2): fails, and changes nothing, when the source does not exist
Rename(f, from, to) ==
    IF f[from] = NoFile \/ from = to THEN f
    ELSE [f EXCEPT ![to] = f[from], ![from] = NoFile]

\* the digest of the content, or the empty string when fopen fails: the
\* file does not exist, or it is the output of a slot whose files cannot
\* be opened for reading
md5_for_file(f, path, noread) ==
    IF f[path] = NoFile \/ path[2] \in noread THEN <<>> ELSE <<"md5", f[path]>>

---------------------------------------------------------------------------
(* Scheduler assignments (UseCSMsg) and executor frames.                   *)

Loopback == "127.0.0.1"

NoUse == [host |-> "", port |-> 0, job_id |-> 0, got_env |-> FALSE]

NoPeer == <<"", 0>>

\* what the daemon may name: the loopback with port 0, a remote host that
\* has the environment or lacks it and, in the single build, the loopback
\* with a port (the daemon of a test run)
Hosts ==
    {<<Loopback, 0, TRUE>>, <<"h1", 1, TRUE>>, <<"h1", 1, FALSE>>} \cup
    (IF job.torepeat = 1 THEN {<<Loopback, 1, TRUE>>} ELSE {})

Assignments(i) ==
    { [host |-> h[1], port |-> h[2], job_id |-> 7 + i, got_env |-> h[3]] :
        h \in Hosts }

NoFrame ==
    [pc |-> "idle", usecs |-> NoUse, ch |-> "null", peer |-> NoPeer,
     proto31 |-> FALSE, sent |-> <<>>, dsent |-> <<>>, cont |-> "", nsrc |-> 0,
     cpp |-> "none", status |-> 255, have_dwo |-> FALSE, target |-> <<"", 0>>,
     got |-> <<>>, obj |-> NoFile, dwo |-> NoFile, drained |-> 0, err |-> 0,
     ret |-> Sentinel, diag |-> FALSE, nlocal |-> 0, localret |-> 0,
     entered |-> FALSE, slot |-> 0, output |-> FALSE, preproc |-> FALSE,
     streaming |-> FALSE, closes |-> 0, quiet |-> FALSE, result |-> FALSE,
     oom |-> FALSE, fd |-> "none", reply |-> "none", unverified |-> FALSE,
     verified |-> FALSE]

NoKid == [st |-> "none", code |-> 0]

\* the locals of build_remote at its start, with asked, the result of the
\* send of GetCS, and noread, the slots whose output fopen cannot open
NoDrv ==
    [pc |-> "start", i |-> 0, exit_codes |-> [p \in Slots |-> Sentinel],
     misc_error |-> FALSE, first_md5 |-> <<>>, ret |-> 0, err |-> 0,
     md5s |-> [p \in Slots |-> <<>>], alloc |-> {}, asked |-> "no",
     noread |-> {}]

\* no call of a helper (get_absfilename, parse_icecc_version) is under way
NoCall == [pc |-> "none"]

InitFs(old) ==
    [q \in Paths |->
        IF old /\ q \in {Out(0), IceTmp(Out(0))} THEN OldData ELSE NoFile]

\* build_remote is entered: rand() % 1000 < permill has set torepeat to 3
\* for a job that is not streaming, or left it 1
InitOf(modes) ==
    /\ \E t \in modes, s \in BOOLEAN, d \in BOOLEAN, old \in BOOLEAN :
          /\ t = Replicas => ~s
          /\ job = [torepeat |-> t, streaming |-> s, split_dwarf |-> d, old |-> old]
          /\ fs = InitFs(old)
    /\ fr = [p \in Slots |-> NoFrame]
    /\ drv = NoDrv
    /\ kid = [p \in Slots |-> NoKid]
    /\ call = NoCall

Init == InitOf({1})

InitRepl == InitOf({Replicas})

InitAll == InitOf({1, Replicas})

---------------------------------------------------------------------------
(* Helpers of the executor frames.  A step of a frame is a set of          *)
(* outcomes <<frame, files>>: every read of the channel, every send and    *)
(* every system call that can fail contributes one outcome per result the  *)
(* code distinguishes.                                                     *)

\* the outcomes G of a step that leaves the files alone
Same(G, files) == {<<g, files>> : g \in G}

\* the messages sent on the remote channel that the remote has not yet
\* answered with a CompileResult, in order; a run of FileChunk messages is
\* kept as one entry
Log(f, tag) ==
    IF tag = "FileChunk" /\ f.sent # <<>> /\ f.sent[Len(f.sent)] = "FileChunk"
    THEN f ELSE [f EXCEPT !.sent = Append(f.sent, tag)]

\* a send_msg on the local daemon's channel, with its result
DLog(f, tag, ok) ==
    [f EXCEPT !.dsent = Append(f.dsent,
        [tag |-> tag, id |-> f.usecs.job_id, exit |-> f.localret, ok |-> ok])]

\* locals of the phase that ended
Forget(f) ==
    [f EXCEPT !.cont = "", !.nsrc = 0, !.got = <<>>, !.target = <<"", 0>>,
              !.have_dwo = FALSE, !.proto31 = FALSE, !.verified = FALSE]

\* throw inside build_remote_int's try block with no handler around it
ThrowUnhandled(f, n) == [Forget(f) EXCEPT !.pc = "thrown", !.err = n]

\* throw inside build_remote_int's try block: the handler drains and closes
\* the channel when there is one, then rethrows; the handler reads neither
\* the assignment nor what was sent
Throw(f, n) ==
    IF f.ch = "open"
    THEN [Forget(f) EXCEPT !.pc = "catch", !.err = n, !.sent = <<>>,
                           !.usecs = NoUse, !.peer = NoPeer]
    ELSE [Forget(f) EXCEPT !.pc = "thrown", !.err = n]

\* delete cserver; return status
Return(f, r) ==
    [Forget(f) EXCEPT !.pc = "returned", !.ch = "closed", !.ret = r,
                      !.sent = <<>>, !.usecs = NoUse, !.peer = NoPeer,
                      !.have_dwo = f.have_dwo, !.closes = f.closes + 1]

---------------------------------------------------------------------------
(* maybe_build_local                                                       *)

\* hostname == "127.0.0.1" and not (ICECC_TEST_REMOTEBUILD and port != 0)
BuildsLocally(u, test) == u.host = Loopback /\ ~(test /\ u.port # 0)

\* the job is built here, or maybe_build_local returns false at once
MaybeBuildLocal(f, files) ==
    Same({ IF BuildsLocally(f.usecs, test)
           THEN [f EXCEPT !.pc = "local_send"]
           ELSE [f EXCEPT !.pc = "connect", !.entered = TRUE] :
           test \in BOOLEAN }, files)

\* local_daemon->send_msg(compile_file), error 29 when it fails
LocalCompile(f, files) ==
    Same({ IF ok
           THEN [DLog(f, "CompileFile", ok) EXCEPT !.pc = "build_local"]
           ELSE [DLog(f, "CompileFile", ok) EXCEPT !.pc = "thrown", !.err = 29] :
           ok \in BOOLEAN }, files)

\* build_local (external): its exit code, and the object on success
BuildLocal(f, files) ==
    { <<[f EXCEPT !.pc = "jobdone", !.nlocal = f.nlocal + 1, !.localret = r],
        IF r = 0 /\ ~f.streaming
        THEN [files EXCEPT ![Out(f.slot)] = LocalObj] ELSE files>> :
      r \in {0, 1} }

\* return local_daemon->send_msg(msg): the caller builds remotely when the
\* result is false
JobDoneResult(f, ok) ==
    IF ok THEN [f EXCEPT !.pc = "returned", !.ret = f.localret]
    ELSE [f EXCEPT !.pc = "connect", !.entered = TRUE]

\* JobDoneMsg msg(job_id, ret, JobDoneMsg::FROM_SUBMITTER)
JobDone(f, files) ==
    Same({ JobDoneResult(DLog(f, "JobDone", ok), ok) : ok \in BOOLEAN }, files)

---------------------------------------------------------------------------
(* build_remote_int: connect, environment transfer and verification        *)

\* the host and port handed to Service::createChannel
DialTarget(u) == <<u.host, u.port>>

\* !IS_PROTOCOL_31(cserver) && ignore_unverified()
Unverifiable(v31, ignore) == ~v31 /\ ignore

\* Service::createChannel(hostname, port, 10); nothing listens on port 0.
\* The remote speaks protocol 31 or an older one, and ignore_unverified()
\* holds or not: unverified is what line 469 finds on this channel
Connect(f, files) ==
    LET g == [f EXCEPT !.peer = DialTarget(f.usecs), !.status = 255] IN
    Same({Throw(g, 2)} \cup
         (IF g.peer[2] = 0 THEN {}
          ELSE { [g EXCEPT !.ch = "open", !.proto31 = v,
                           !.unverified = Unverifiable(v, ignore),
                           !.pc = IF g.usecs.got_env THEN "send_compile"
                                  ELSE "env_start"] :
                 v \in BOOLEAN, ignore \in BOOLEAN }),
         files)

\* stat(version_file), send EnvTransferMsg, open(version_file)
EnvStart(f, files) ==
    Same({ Throw(f, 4), Throw(f, 6), Throw(Log(f, "EnvTransfer"), 5),
           [Log(f, "EnvTransfer") EXCEPT !.pc = "stream", !.cont = "env_end",
                                         !.nsrc = 0, !.fd = "open"] }, files)

\* an error leaving write_server_cpp: when the source is the preprocessor's
\* pipe, the handler around it sends SIGTERM to the child and rethrows
StreamThrow(f, n) ==
    Throw([f EXCEPT !.cpp = IF f.cpp = "running" THEN "signalled" ELSE f.cpp], n)

\* close(cpp_fd)
CloseFd(f) == [f EXCEPT !.fd = "closed"]

\* what cserver->get_msg(2) may return after a send that failed
Polled == {"null", "StatusText", "other"}

\* send_msg(fcmsg) failed: m = cserver->get_msg(2), check_for_failure(m)
\* throws error 23 for a StatusText; otherwise close(cpp_fd) and error 15
SendFailed(f, m) ==
    LET g == [f EXCEPT !.reply = m] IN
    IF m = "StatusText" THEN StreamThrow(g, 23) ELSE StreamThrow(CloseFd(g), 15)

\* write_server_cpp: one pass of its loop (a failed read, a chunk sent, a
\* chunk not sent and the one read that follows, the end of the source)
Stream(f, files) ==
    Same({ StreamThrow(CloseFd(f), 16),
           [CloseFd(f) EXCEPT !.pc = f.cont, !.cont = "", !.nsrc = 0] }
         \cup
         (IF f.nsrc < MaxSrcChunks
          THEN { [Log(f, "FileChunk") EXCEPT !.nsrc = f.nsrc + 1] } \cup
               { SendFailed(f, m) : m \in Polled }
          ELSE {}),
         files)

\* send EndMsg after the environment
EnvEnd(f, files) ==
    Same({ Throw(f, 8),
           [Log(f, "End") EXCEPT
               !.pc = IF f.proto31 THEN "verify_send" ELSE "send_compile"] },
         files)

\* send VerifyEnvMsg
VerifySend(f, files) ==
    Same({ Throw(f, 22), [Log(f, "VerifyEnv") EXCEPT !.pc = "verify_wait"] },
         files)

\* error 24 without the message to the daemon
RaiseUnlisted(f) == Throw(f, 24)

\* VerifyEnvResult(ok = false): the host is blacklisted before the error
OnVerifyFailed(f) == [f EXCEPT !.pc = "blacklist"]

\* cserver->get_msg(60) after VerifyEnv: ok, not ok, anything else
VerifyWait(f, files) ==
    Same({ [f EXCEPT !.pc = "send_compile", !.verified = TRUE],
           OnVerifyFailed(f), Throw(f, 25) },
         files)

\* local_daemon->send_msg(blacklist); throw client_error(24, ...)
Blacklist(f, files) ==
    Same({ Throw(DLog(f, "BlacklistHostEnv", ok), 24) : ok \in BOOLEAN }, files)

---------------------------------------------------------------------------
(* build_remote_int: the compile request and the source                    *)

\* the compile request is on its way: the assignment and the dialogue with
\* the daemon are read no more
Compiling(f) ==
    [Log(f, "CompileFile") EXCEPT !.pc = "source", !.usecs = NoUse,
        !.peer = NoPeer, !.proto31 = FALSE, !.dsent = <<>>, !.localret = 0,
        !.entered = FALSE, !.verified = FALSE]

\* the compile request is sent without the check of line 469
SendUnchecked(f, files) == Same({Compiling(f), Throw(f, 9)}, files)

\* the check for hosts that cannot be verified, then send CompileFileMsg
SendCompile(f, files) ==
    Same(IF f.unverified THEN {Throw(f, 26)} ELSE {Compiling(f), Throw(f, 9)},
         files)

\* the start of write_server_cpp on the source
Feed(f, c) == [f EXCEPT !.pc = "stream", !.cont = c, !.nsrc = 0, !.fd = "open"]

\* the three shapes of the source: stdin, the preprocessor's pipe (pipe()
\* failing ends the process), the preprocessed file
Source(f, files) ==
    Same(IF f.streaming THEN {Feed(f, "send_end")}
         ELSE IF ~f.preproc
         THEN { [f EXCEPT !.pc = "exit"], Throw(f, 18),
                [Feed(f, "cpp_wait") EXCEPT !.cpp = "running"] }
         ELSE {Throw(f, 11)} \cup
              (IF files[Preproc] # NoFile THEN {Feed(f, "send_end")} ELSE {}),
         files)

\* the exit code of the preprocessor is not looked at
CppIgnored(f, files) ==
    Same({ [f EXCEPT !.cpp = "reaped", !.status = st, !.pc = "send_end"] :
           st \in {0, 1} }, files)

\* waitpid(cpp_pid, &status, 0); a failed preprocessor ends the run with
\* its exit code
CppWait(f, files) ==
    LET g == [f EXCEPT !.cpp = "reaped"] IN
    Same({ IF st # 0 THEN Return([g EXCEPT !.status = st], st)
           ELSE [g EXCEPT !.status = st, !.pc = "send_end"] : st \in {0, 1} },
         files)

\* the result of send_msg(EndMsg()) is not read
EndUnchecked(f, ok) ==
    IF ok THEN [Log(f, "End") EXCEPT !.pc = "await_result"]
    ELSE [f EXCEPT !.pc = "await_result"]

\* the result of sending the trailing EndMsg
EndSent(f, ok) ==
    IF ok THEN [Log(f, "End") EXCEPT !.pc = "await_result"] ELSE Throw(f, 12)

\* send EndMsg after the source
SendEnd(f, files) == Same({ EndSent(f, ok) : ok \in BOOLEAN }, files)

---------------------------------------------------------------------------
(* build_remote_int: the compile result                                    *)

\* the artifacts are received whatever the status is
AfterResultAny(f, st, dwo) ==
    LET g == [f EXCEPT !.status = st, !.diag = f.output, !.sent = <<>>] IN
    IF f.streaming
    THEN [g EXCEPT !.pc = "recv", !.target = <<"stdout", f.slot>>, !.got = <<>>]
    ELSE [g EXCEPT !.pc = "recv_open", !.target = Out(f.slot), !.have_dwo = dwo]

\* the diagnostics are written whatever output is
AfterResultLoud(f, st, dwo) ==
    LET g == [f EXCEPT !.status = st, !.diag = TRUE, !.sent = <<>>] IN
    IF st = 0
    THEN IF f.streaming
         THEN [g EXCEPT !.pc = "recv", !.target = <<"stdout", f.slot>>,
                        !.got = <<>>]
         ELSE [g EXCEPT !.pc = "recv_open", !.target = Out(f.slot),
                        !.have_dwo = dwo]
    ELSE Return(g, st)

\* what follows a CompileResult that raised no error: the diagnostics are
\* written when output is set, artifacts are received only for status 0
AfterResult(f, st, dwo) ==
    LET g == [f EXCEPT !.status = st, !.diag = f.output, !.sent = <<>>] IN
    IF st = 0
    THEN IF f.streaming
         THEN [g EXCEPT !.pc = "recv", !.target = <<"stdout", f.slot>>,
                        !.got = <<>>]
         ELSE [g EXCEPT !.pc = "recv_open", !.target = Out(f.slot),
                        !.have_dwo = dwo]
    ELSE Return(g, st)

\* a CompileResultMsg whose out-of-memory flag is not read
OnResultAnyway(f, st, oom, retry, dwo) ==
    LET g == [f EXCEPT !.result = TRUE, !.status = st, !.oom = st # 0 /\ oom] IN
    IF f.output /\ retry THEN Throw(g, 102) ELSE AfterResult(g, st, dwo)

\* the CompileResultMsg: status = crmsg->status, then error 101 for a failed
\* compile that ran out of memory, error 102 when the diagnostics are not
\* empty and output_needs_workaround, else the diagnostics and the artifacts
OnResult(f, st, oom, retry, dwo) ==
    LET g == [f EXCEPT !.result = TRUE, !.status = st, !.oom = st # 0 /\ oom] IN
    IF st # 0 /\ oom THEN Throw(g, 101)
    ELSE IF f.output /\ retry THEN Throw(g, 102)
    ELSE AfterResult(g, st, dwo)

\* cserver->get_msg(12 * 60): nothing, a StatusText, another message, or
\* the CompileResultMsg
AwaitResult(f, files) ==
    Same({ Throw(f, 14), Throw(f, 23), Throw(f, 13) } \cup
         { OnResult(f, st, oom, text /\ workaround, dwo) :
           st \in {0, 1}, oom \in BOOLEAN, text \in BOOLEAN,
           workaround \in BOOLEAN, dwo \in BOOLEAN },
         files)

---------------------------------------------------------------------------
(* receive_file / receive_fd                                               *)

\* open without O_TRUNC: what the file holds stays
OpenKeeping(files, path) ==
    IF files[path] = NoFile THEN [files EXCEPT ![path] = Empty] ELSE files

\* open(tmp_file, O_CREAT | O_TRUNC | O_WRONLY | O_LARGEFILE, 0666)
OpenTmp(files, path) == [files EXCEPT ![path] = Empty]

\* a receive that writes to the output path itself
InPlace(path) == path

\* string tmp_file = output_file + "_icetmp"
TmpOf(path) == IceTmp(path)

\* receive to a path (receive_file) or to STDOUT_FILENO (receive_fd alone)
ToFile(f) == f.target[1] # "stdout"

\* receive_file: the temp file is opened, or error 31
RecvOpen(f, files) ==
    { <<Throw(f, 31), files>>,
      <<[f EXCEPT !.pc = "recv", !.got = <<>>], OpenTmp(files, TmpOf(f.target))>> }

\* an error leaving receive_fd: receive_file unlinks the temp file and rethrows
RecvThrow(f, files, n) ==
    <<Throw(f, n), IF ToFile(f) THEN Unlink(files, TmpOf(f.target)) ELSE files>>

\* write(obj_fd, fcmsg->buffer, fcmsg->len)
WriteChunk(files, path, b) == [files EXCEPT ![path] = Append(files[path], b)]

\* FileChunk messages received on this channel so far
Received(f) == Len(f.got) + (IF f.obj = NoFile THEN 0 ELSE Len(f.obj))

\* FileChunk messages the remote sends on one channel at most
ChunkBound(f) == IF f.preproc THEN MaxReplChunks ELSE MaxChunks

\* the End message: the artifact is complete
RecvEnd(f) ==
    LET g == IF f.target[1] = "out" THEN [f EXCEPT !.obj = f.got]
             ELSE IF f.target[1] = "dwo" THEN [f EXCEPT !.dwo = f.got]
             ELSE f IN
    IF ToFile(f) THEN [g EXCEPT !.pc = "recv_close", !.got = <<>>]
    ELSE Return(g, f.status)

\* receive_fd: one pass of its loop, cserver->get_msg(40): nothing, a
\* StatusText, another tag, a chunk that is not written, a chunk, End
Recv(f, files) ==
    { RecvThrow(f, files, n) : n \in {19, 23, 20, 21} } \cup
    { <<RecvEnd(f), files>> } \cup
    (IF Received(f) < ChunkBound(f)
     THEN { <<[f EXCEPT !.got = Append(f.got, b)],
              IF ToFile(f) THEN WriteChunk(files, TmpOf(f.target), b) ELSE files>> :
            b \in IF f.preproc THEN ReplBytes ELSE Bytes }
     ELSE {})

\* rename(tmp_file, output_file)
Publish(files, path) == Rename(files, TmpOf(path), path)

\* close(obj_fd) and rename; then the .dwo sidecar when it was announced
RecvClose(f, files) ==
    { <<Throw(f, 30), Unlink(files, TmpOf(f.target))>> } \cup
    (IF files[TmpOf(f.target)] = NoFile THEN {}
     ELSE { <<IF f.target[1] = "out" /\ f.have_dwo
              THEN [f EXCEPT !.pc = "recv_open", !.target = DwoOf(f.target)]
              ELSE Return(f, f.status),
              Publish(files, f.target)>> })

---------------------------------------------------------------------------
(* build_remote_int: catch (...)                                           *)

\* while (Msg *msg = cserver->get_msg(0)) ...; delete cserver; throw: a
\* pending message is read, or nothing is pending and the channel is closed
Catch(f, files) ==
    Same({ [f EXCEPT !.pc = "thrown", !.ch = "closed", !.quiet = TRUE,
                     !.closes = f.closes + 1] } \cup
         (IF f.drained < MaxDrain
          THEN { [f EXCEPT !.drained = f.drained + 1] } ELSE {}),
         files)

---------------------------------------------------------------------------
(* The steps of a frame by its position.                                   *)

Steps(f, files) ==
    CASE f.pc = "mbl"          -> MaybeBuildLocal(f, files)
      [] f.pc = "local_send"   -> LocalCompile(f, files)
      [] f.pc = "build_local"  -> BuildLocal(f, files)
      [] f.pc = "jobdone"      -> JobDone(f, files)
      [] f.pc = "connect"      -> Connect(f, files)
      [] f.pc = "env_start"    -> EnvStart(f, files)
      [] f.pc = "stream"       -> Stream(f, files)
      [] f.pc = "env_end"      -> EnvEnd(f, files)
      [] f.pc = "verify_send"  -> VerifySend(f, files)
      [] f.pc = "verify_wait"  -> VerifyWait(f, files)
      [] f.pc = "blacklist"    -> Blacklist(f, files)
      [] f.pc = "send_compile" -> SendCompile(f, files)
      [] f.pc = "source"       -> Source(f, files)
      [] f.pc = "cpp_wait"     -> CppWait(f, files)
      [] f.pc = "send_end"     -> SendEnd(f, files)
      [] f.pc = "await_result" -> AwaitResult(f, files)
      [] f.pc = "recv_open"    -> RecvOpen(f, files)
      [] f.pc = "recv"         -> Recv(f, files)
      [] f.pc = "recv_close"   -> RecvClose(f, files)
      [] f.pc = "catch"        -> Catch(f, files)
      [] OTHER                 -> {}

---------------------------------------------------------------------------
(* build_remote, torepeat = 1                                              *)

SetDrv(d) == drv' = d

\* local_daemon->send_msg(getcs) of the single build
SingleGetCS ==
    /\ drv.pc = "start" /\ job.torepeat = 1
    /\ \/ SetDrv([drv EXCEPT !.pc = "thrown", !.err = 24, !.asked = "failed"])
       \/ SetDrv([drv EXCEPT !.pc = "get_server", !.asked = "sent"])
    /\ UNCHANGED <<call, job, fs, fr, kid>>

\* any reply, and none, is taken for an assignment
AnyReply(i, reply) == TRUE

\* get_server: the reply must be there and be a UseCSMsg
get_server(i, reply) == reply \in Assignments(i)

\* what local_daemon->get_msg(4 * 60) may return: an assignment, a message
\* of another type, or nothing
Replies(i) == Assignments(i) \cup {[NoUse EXCEPT !.host = "other"], NoUse}

\* maybe_build_local(local_daemon, usecs, jobs[p], ret), then
\* build_remote_int(jobs[p], usecs, ..., preproc_file, output)
StartFrame(u, p, preproc, output) ==
    [NoFrame EXCEPT !.pc = "mbl", !.usecs = u, !.slot = p, !.preproc = preproc,
                    !.output = output, !.streaming = job.streaming]

SingleGetServer ==
    /\ drv.pc = "get_server" /\ job.torepeat = 1
    /\ \E m \in Replies(0) :
         IF get_server(0, m)
         THEN /\ fr' = [fr EXCEPT ![0] = StartFrame(m, 0, FALSE, TRUE)]
              /\ SetDrv([drv EXCEPT !.pc = "exec"])
         ELSE /\ SetDrv([drv EXCEPT !.pc = "thrown", !.err = 1])
              /\ fr' = fr
    /\ UNCHANGED <<call, job, fs, kid>>

\* delete usecs; return ret -- or the error, or exit(errno), leaves build_remote
SingleFinish ==
    /\ drv.pc = "exec" /\ job.torepeat = 1
    /\ fr[0].pc \in {"returned", "thrown", "exit"}
    /\ SetDrv(IF fr[0].pc = "returned"
              THEN [drv EXCEPT !.pc = "returned", !.ret = fr[0].ret]
              ELSE IF fr[0].pc = "thrown"
              THEN [drv EXCEPT !.pc = "thrown", !.err = fr[0].err]
              ELSE [drv EXCEPT !.pc = "exited"])
    /\ UNCHANGED <<call, job, fs, fr, kid>>

\* one step of frame 0, which is at position pc and has the outcomes S
At(pc, S) ==
    /\ drv.pc = "exec" /\ fr[0].pc = pc
    /\ \E s \in S : fr' = [fr EXCEPT ![0] = s[1]] /\ fs' = s[2]
    /\ UNCHANGED <<call, job, drv, kid>>

DoMaybeBuildLocal == At("mbl", MaybeBuildLocal(fr[0], fs))
DoLocalCompile == At("local_send", LocalCompile(fr[0], fs))
DoBuildLocal == At("build_local", BuildLocal(fr[0], fs))
DoJobDone == At("jobdone", JobDone(fr[0], fs))
DoConnect == At("connect", Connect(fr[0], fs))
DoEnvStart == At("env_start", EnvStart(fr[0], fs))
DoStream == At("stream", Stream(fr[0], fs))
DoEnvEnd == At("env_end", EnvEnd(fr[0], fs))
DoVerifySend == At("verify_send", VerifySend(fr[0], fs))
DoVerifyWait == At("verify_wait", VerifyWait(fr[0], fs))
DoBlacklist == At("blacklist", Blacklist(fr[0], fs))
DoSendCompile == At("send_compile", SendCompile(fr[0], fs))
DoSource == At("source", Source(fr[0], fs))
DoCppWait == At("cpp_wait", CppWait(fr[0], fs))
DoSendEnd == At("send_end", SendEnd(fr[0], fs))
DoAwaitResult == At("await_result", AwaitResult(fr[0], fs))
DoRecvOpen == At("recv_open", RecvOpen(fr[0], fs))
DoRecv == At("recv", Recv(fr[0], fs))
DoRecvClose == At("recv_close", RecvClose(fr[0], fs))
DoCatch == At("catch", Catch(fr[0], fs))

\* the single build: frame 0 runs in the driver
Next ==
    \/ SingleGetCS \/ SingleGetServer
    \/ DoMaybeBuildLocal \/ DoLocalCompile \/ DoBuildLocal \/ DoJobDone
    \/ DoConnect \/ DoEnvStart \/ DoStream \/ DoEnvEnd
    \/ DoVerifySend \/ DoVerifyWait \/ DoBlacklist
    \/ DoSendCompile \/ DoSource \/ DoCppWait \/ DoSendEnd
    \/ DoAwaitResult \/ DoRecvOpen \/ DoRecv \/ DoRecvClose \/ DoCatch
    \/ SingleFinish

Spec == Init /\ [][Next]_vars

---------------------------------------------------------------------------
(* The replica children.  A child's steps that touch only its own channel, *)
(* its own temp file and its own memory commute with the steps of the      *)
(* parent and of the other children, and nothing outside the child tells   *)
(* a terminated child that is not yet reaped from one about to terminate:  *)
(* a child runs on to its next step on the local daemon's channel or on    *)
(* an output path, or to its end.                                          *)

PrivatePcs ==
    {"mbl", "connect", "env_start", "stream", "env_end", "verify_send",
     "verify_wait", "send_compile", "source", "send_end", "await_result",
     "recv_open", "recv", "catch"}

\* the frame of a child that is ending: nothing outside the child reads
\* what the frame held, the exit code aside; an error ends the child by a
\* signal whatever its number, once the handler has closed the channel
Ending(f) ==
    IF f.pc = "thrown" THEN [NoFrame EXCEPT !.pc = "thrown"]
    ELSE IF f.pc = "returned" THEN [NoFrame EXCEPT !.pc = "returned", !.ret = f.ret]
    ELSE IF f.pc = "catch"
    THEN [NoFrame EXCEPT !.pc = "catch", !.ch = "open", !.drained = f.drained]
    ELSE f

\* the outcomes todo run on through the steps private to the child, added
\* to the outcomes done that are at a visible step or at the end
RECURSIVE RunOn(_, _)
RunOn(done, todo) ==
    IF todo = {} THEN done
    ELSE LET T == UNION { {<<Ending(t[1]), t[2]>> : t \in Steps(s[1], s[2])} :
                          s \in todo }
             run == {s \in T : s[1].pc \in PrivatePcs} IN
         RunOn(done \cup (T \ run), run)

\* the outcomes S, each run on through the steps private to the child
Settle(S) ==
    LET run == {s \in S : s[1].pc \in PrivatePcs} IN
    RunOn(S \ run, run)

\* the child's end: _exit(ret), or kill(getpid(), SIGTERM) after an error;
\* the int thrown by receive_file is no std::exception and leaves
\* build_remote in the child, which ends by a signal as well (abort)
ChildExit(f) ==
    IF f.pc = "returned" THEN [st |-> "exited", code |-> f.ret]
    ELSE IF f.pc = "thrown" THEN [st |-> "signaled", code |-> 0]
    ELSE [st |-> "running", code |-> 0]

\* child p has come to outcome s; its memory is gone when it has ended
Land(p, s) ==
    /\ fr' = [fr EXCEPT ![p] = IF ChildExit(s[1]).st = "running" THEN s[1]
                               ELSE NoFrame]
    /\ kid' = [kid EXCEPT ![p] = ChildExit(s[1])]
    /\ fs' = s[2]

\* a step of child p on the local daemon's channel or on an output path
Child(p) ==
    /\ kid[p].st = "running"
    /\ \E s \in Settle(Steps(fr[p], fs)) : Land(p, s)
    /\ UNCHANGED <<call, job, drv>>

---------------------------------------------------------------------------
(* build_remote, torepeat = 3                                              *)

\* dcc_make_tmpnam, call_cpp into the temp file, waitpid: the fork fails, the
\* preprocessor fails, or the preprocessed source is there
ReplPreprocess ==
    /\ drv.pc = "start" /\ job.torepeat = Replicas
    /\ \/ /\ SetDrv([drv EXCEPT !.pc = "thrown", !.err = 10])
          /\ fs' = Unlink(fs, Preproc)
       \/ /\ SetDrv([drv EXCEPT !.pc = "returned", !.ret = 1])
          /\ fs' = Unlink(fs, Preproc)
       \/ /\ SetDrv([drv EXCEPT !.pc = "getcs"])
          /\ fs' = [fs EXCEPT ![Preproc] = OldData]
    /\ UNCHANGED <<call, job, fr, kid>>

\* local_daemon->send_msg(getcs) of the replicated build
ReplGetCS ==
    /\ drv.pc = "getcs"
    /\ \/ SetDrv([drv EXCEPT !.pc = "thrown", !.err = 0, !.asked = "failed"])
       \/ SetDrv([drv EXCEPT !.pc = "setup", !.i = 0, !.asked = "sent"])
    /\ UNCHANGED <<call, job, fs, fr, kid>>

\* a loop whose variable is not advanced
StepNever(d, next) == d

\* the loop variable after one pass; the loop's exit leads to pc next
Step(d, next) ==
    IF d.i + 1 < Replicas THEN [d EXCEPT !.i = d.i + 1]
    ELSE [d EXCEPT !.i = 0, !.pc = next]

\* dcc_make_tmpnam("icecc", ".o", ...) for the slots after the first
AllocOutput(f, i) == IF i >= 1 THEN [f EXCEPT ![Out(i)] = Empty] ELSE f

\* the record of the slots whose temp output was created
Allocated(d) == IF d.i >= 1 THEN [d EXCEPT !.alloc = d.alloc \cup {d.i}] ELSE d

\* one pass of the setup loop: the output path, get_server, fork
ReplSetup ==
    LET i == drv.i
        files == AllocOutput(fs, i) IN
    /\ drv.pc = "setup"
    /\ \E m \in Replies(i) :
         IF get_server(i, m)
         THEN /\ SetDrv(Step(Allocated(drv), "wait"))
              /\ \E forked \in BOOLEAN :
                   IF forked
                   THEN \E s \in Settle({<<StartFrame(m, i, TRUE, i = 0), files>>}) :
                           Land(i, s)
                   ELSE /\ fr' = fr
                        /\ kid' = [kid EXCEPT ![i] = [NoKid EXCEPT !.st = "forkfail"]]
                        /\ fs' = files
         ELSE /\ SetDrv([Allocated(drv) EXCEPT !.pc = "thrown", !.err = 1])
              /\ fs' = files
              /\ UNCHANGED <<fr, kid>>
    /\ UNCHANGED <<call, job>>

\* the slots whose output fopen cannot open: none, the first, the others, all
Unreadable == {{}, {0}, Slots \ {0}, Slots}

\* after the last wait: string first_md5 = md5_for_file(jobs[0].outputFile()),
\* where fopen fails for the outputs of the slots nr
Waited(d, nr) ==
    LET e == Step(d, "reconcile") IN
    IF e.pc = "reconcile"
    THEN [e EXCEPT !.i = 1, !.noread = nr,
                   !.first_md5 = md5_for_file(fs, Out(0), nr),
                   !.md5s = [p \in Slots |-> md5_for_file(fs, Out(p), nr)]]
    ELSE e

\* whether fopen can open the outputs is drawn when the wait loop ends
Opens(d) ==
    IF Step(d, "reconcile").pc = "reconcile" THEN Unreadable ELSE {{}}

\* pid_t pid = wait(&status): a child that was signalled, a child that
\* exited, or no child at all
ReplWait ==
    /\ drv.pc = "wait"
    /\ \/ \E q \in Slots :
            /\ kid[q].st = "signaled"
            /\ kid' = [kid EXCEPT ![q] = [NoKid EXCEPT !.st = "buried"]]
            /\ SetDrv([drv EXCEPT !.misc_error = TRUE, !.pc = "misc", !.i = 0])
       \/ \E q \in Slots :
            /\ kid[q].st = "exited"
            /\ kid' = [kid EXCEPT ![q] = [kid[q] EXCEPT !.st = "reaped"]]
            /\ \E nr \in Opens(drv) :
                  SetDrv(Waited([drv EXCEPT !.exit_codes[q] = kid[q].code], nr))
       \/ /\ \A q \in Slots : kid[q].st \notin {"running", "exited", "signaled"}
          /\ kid' = kid
          /\ \E nr \in Opens(drv) : SetDrv(Waited(drv, nr))
    /\ UNCHANGED <<call, job, fs, fr>>

\* a comparison that finds every pair of digests equal
NeverDiffers(first, other) == FALSE

\* other_md5 != first_md5
Differs(first, other) == other # first

\* the file is deleted where the code renames it
Discard(f, path) == Unlink(f, path)

\* rename(path, path + ".caught")
Keep(f, path) == Rename(f, path, Caught(path))

\* unlink the file and, with dwarf fission, its .dwo
UnlinkOutput(f, path) ==
    IF job.split_dwarf THEN Unlink(Unlink(f, path), DwoOf(path)) ELSE Unlink(f, path)

\* the replicas disagree on the exit code: the object of slot 0 is deleted
ExitMismatch(f) == UnlinkOutput(f, Out(0))

\* the replicas disagree on the object: the object of slot 0, the
\* preprocessed source and the .dwo are kept as .caught
Md5Mismatch(f) ==
    LET g == Keep(Keep(f, Out(0)), Preproc) IN
    IF job.split_dwarf THEN Keep(g, DwoOf(Out(0))) ELSE g

\* one pass of the reconciliation loop, for slot drv.i
Reconcile ==
    LET i == drv.i
        codes == drv.exit_codes
        fail == [drv EXCEPT !.exit_codes[0] = -1, !.pc = "tail", !.i = 0] IN
    /\ drv.pc = "reconcile"
    /\ IF codes[0] = 0 /\ codes[i] = Sentinel
       THEN /\ SetDrv(Step(drv, "tail"))
            /\ fs' = fs
       ELSE IF codes[0] = 0 /\ codes[i] # 0
       THEN /\ SetDrv(fail)
            /\ fs' = ExitMismatch(fs)
       ELSE IF codes[0] = 0 /\ Differs(drv.first_md5, md5_for_file(fs, Out(i), drv.noread))
       THEN /\ SetDrv(fail)
            /\ fs' = Md5Mismatch(fs)
       ELSE /\ SetDrv(Step(drv, "tail"))
            /\ fs' = UnlinkOutput(fs, Out(i))
    /\ UNCHANGED <<call, job, fr, kid>>

\* misc_error: unlink the output of slot drv.i
MiscCleanup ==
    /\ drv.pc = "misc"
    /\ fs' = UnlinkOutput(fs, Out(drv.i))
    /\ SetDrv(Step(drv, "tail"))
    /\ UNCHANGED <<call, job, fr, kid>>

\* ::unlink(preproc)
TailCleanup(f) == Unlink(f, Preproc)

\* the end of the replicated build: return exit_codes[0] or throw 27
ReplTail ==
    /\ drv.pc = "tail"
    /\ fs' = TailCleanup(fs)
    /\ SetDrv(IF drv.misc_error THEN [drv EXCEPT !.pc = "thrown", !.err = 27]
              ELSE [drv EXCEPT !.pc = "returned", !.ret = drv.exit_codes[0]])
    /\ UNCHANGED <<call, job, fr, kid>>

\* the replicated build: the parent and its children
NextRepl ==
    \/ ReplPreprocess \/ ReplGetCS \/ ReplSetup
    \/ \E p \in Slots : Child(p)
    \/ ReplWait \/ Reconcile \/ MiscCleanup \/ ReplTail

SpecRepl == InitRepl /\ [][NextRepl]_vars

\* either build
NextAll == Next \/ NextRepl

SpecAll == InitAll /\ [][NextAll]_vars

---------------------------------------------------------------------------
(* Properties of the replicated build.                                     *)

Replicated == job.torepeat = Replicas

\* the exit code slot i was reaped with, 42 when none was recorded
Recorded(i) == IF kid[i].st = "reaped" THEN kid[i].code ELSE Sentinel

\* C1: the replicated build returns 0 only if every slot whose recorded exit
\* code is not 42 has exit code 0 and an output file whose MD5 equals the MD5
\* of the output file of slot 0
C1_ZeroOnlyWhenReplicasAgree ==
    (Replicated /\ drv.pc = "returned" /\ drv.ret = 0) =>
        \A i \in Slots :
            drv.exit_codes[i] # Sentinel =>
                /\ drv.exit_codes[i] = 0
                /\ Recorded(i) = 0
                /\ drv.md5s[i] = drv.md5s[0]

\* three replicas exited 0 with the same object and the build returned 0
C1_Witness ==
    /\ Replicated /\ drv.pc = "returned" /\ drv.ret = 0
    /\ \A i \in Slots : drv.exit_codes[i] = 0 /\ drv.md5s[i] = drv.md5s[0]
    /\ drv.md5s[0] # <<>>

\* slot 0 and slot i both exited 0 and their outputs have different digests
MismatchAt(i) ==
    /\ Recorded(0) = 0 /\ Recorded(i) = 0
    /\ drv.md5s[i] # drv.md5s[0]

\* the object of slot 0 and the preprocessed source are kept as .caught and
\* the build returns -1
CaughtKept ==
    /\ md5_for_file(fs, Caught(Out(0)), drv.noread) = drv.md5s[0]
    /\ fs[Caught(Out(0))] # NoFile
    /\ fs[Caught(Preproc)] # NoFile
    /\ drv.ret = -1

\* the slots before i are all recorded as 42 or agree with slot 0
AgreeBefore(i) ==
    \A j \in 1 .. (i - 1) :
        \/ Recorded(j) = Sentinel
        \/ Recorded(j) = 0 /\ drv.md5s[j] = drv.md5s[0]

\* C2: when slot 0 and a slot i >= 1 both exit 0 with different MD5s, and
\* every slot between them is recorded as 42 or exited 0 with the MD5 of
\* slot 0, then at the return the object of slot 0 is under <output>.caught,
\* the preprocessed source under <preproc>.caught, and the value is -1
C2_MismatchKeepsCaught ==
    (Replicated /\ drv.pc = "returned"
        /\ \E i \in Slots \ {0} : MismatchAt(i) /\ AgreeBefore(i)) => CaughtKept

\* C2 as stated, for a mismatch at any slot i >= 1: at the return the
\* .caught files are there and the value is -1
C2_AnyMismatchKeepsCaught ==
    (Replicated /\ drv.pc = "returned"
        /\ \E i \in Slots \ {0} : MismatchAt(i)) => CaughtKept

\* slots 0 and 1 agree, slot 2 exits 0 with another object: .caught, -1
C2_Witness ==
    /\ Replicated /\ drv.pc = "returned"
    /\ Recorded(1) = 0 /\ drv.md5s[1] = drv.md5s[0]
    /\ MismatchAt(2)
    /\ CaughtKept

\* C3: when the replicated build returns or raises, the temp output of every
\* slot i >= 1 that was allocated is gone
C3_ReplicaOutputsGone ==
    (Replicated /\ drv.pc \in {"returned", "thrown"}) =>
        \A i \in drv.alloc : fs[Out(i)] = NoFile

---------------------------------------------------------------------------
(* Properties of the single build and of its frame.                        *)

\* what a path held before the call
Pristine(path) == InitFs(job.old)[path]

\* the driver has raised an error or returned a non-zero exit code
Failed == drv.pc = "thrown" \/ (drv.pc = "returned" /\ drv.ret # 0)

\* C4: at every failed return of a build in which build_local did not run,
\* the output path holds what it held before the call
C4_FailureLeavesOutput ==
    (Failed /\ fr[0].nlocal = 0) => fs[Out(0)] = Pristine(Out(0))

\* C5: while an artifact is received to a path, the path holds what it held
\* before (the object of build_local, when that ran) and the chunks are in
\* <path>_icetmp; while the .dwo is received, the object path holds the whole
\* object
C5_NoPartialArtifact ==
    LET f == fr[0] IN
    (f.pc \in {"recv_open", "recv", "recv_close"} /\ ToFile(f)) =>
        /\ fs[f.target] \in {Pristine(f.target)} \cup
               (IF f.target = Out(0) /\ f.nlocal > 0 THEN {LocalObj} ELSE {})
        /\ f.pc = "recv" => fs[IceTmp(f.target)] = f.got
        /\ f.pc = "recv_close" =>
               fs[IceTmp(f.target)] = IF f.target = Out(0) THEN f.obj ELSE f.dwo
        /\ f.target = DwoOf(Out(0)) => fs[Out(0)] = f.obj /\ f.obj # NoFile

\* one of two chunks of the object is written: it is in the temp file and the
\* output path still holds the old object
C5_Witness ==
    /\ fr[0].pc = "recv" /\ fr[0].target = Out(0)
    /\ fr[0].got = <<1>> /\ fs[IceTmp(Out(0))] = <<1>>
    /\ fs[Out(0)] = OldData

\* C6: when a remote build that is not streaming returns 0, the output path
\* holds the chunks received before End, in order, no <output>_icetmp and no
\* <output>.caught is there, and likewise for the .dwo when it was announced
C6_SuccessPublishesArtifact ==
    LET f == fr[0]
        dwo == DwoOf(Out(0)) IN
    (drv.pc = "returned" /\ drv.ret = 0 /\ ~job.streaming /\ f.ch = "closed") =>
        /\ f.obj # NoFile /\ fs[Out(0)] = f.obj
        /\ fs[IceTmp(Out(0))] = NoFile /\ fs[Caught(Out(0))] = NoFile
        /\ f.have_dwo =>
              /\ f.dwo # NoFile /\ fs[dwo] = f.dwo
              /\ fs[IceTmp(dwo)] = NoFile /\ fs[Caught(dwo)] = NoFile

\* an object of one chunk and a .dwo of one chunk replaced an old object and
\* an old temp file
C6_Witness ==
    /\ drv.pc = "returned" /\ drv.ret = 0 /\ job.old /\ fr[0].have_dwo
    /\ fs[Out(0)] = <<1>> /\ fs[DwoOf(Out(0))] = <<2>>

\* the JobDone messages a frame sent for job id with exit code r
JobDones(f, id, r) ==
    Cardinality({k \in DOMAIN f.dsent :
        /\ f.dsent[k].tag = "JobDone"
        /\ f.dsent[k].id = id /\ f.dsent[k].exit = r})

\* C7: for an assignment of 127.0.0.1 with port 0, build_remote_int is not
\* entered and no channel is dialled, and when the driver returns,
\* build_local has run once, one JobDone with the job id and build_local's
\* exit code was sent, and that exit code is returned
C7_LoopbackIsLocalOnly ==
    LET f == fr[0] IN
    (f.usecs.host = Loopback /\ f.usecs.port = 0) =>
        /\ ~f.entered /\ f.peer = NoPeer
        /\ drv.pc = "returned" =>
              /\ f.nlocal = 1
              /\ JobDones(f, f.usecs.job_id, f.localret) = 1
              /\ Len(f.dsent) = 2
              /\ drv.ret = f.localret

\* the BlacklistHostEnv messages a frame sent
Blacklists(f) ==
    Cardinality({k \in DOMAIN f.dsent : f.dsent[k].tag = "BlacklistHostEnv"})

\* what a frame sent on the remote channel holds tag
Sent(f, tag) == \E k \in DOMAIN f.sent : f.sent[k] = tag

\* C8: a frame sends BlacklistHostEnv at most once; it has sent it exactly
\* when it is raising error 24, which it raises only after the remote did not
\* verify the environment; no CompileFile is on the channel then
C8_BlacklistOnceBeforeError ==
    LET f == fr[0] IN
    /\ Blacklists(f) <= 1
    /\ (f.pc \in {"catch", "thrown"} /\ f.err = 24) <=> Blacklists(f) = 1
    /\ f.pc = "blacklist" =>
          /\ ~Sent(f, "CompileFile")
          /\ f.sent[Len(f.sent)] = "VerifyEnv"
    /\ Blacklists(f) = 1 => ~Sent(f, "CompileFile") /\ f.obj = NoFile

\* the frame raised error 24 after one BlacklistHostEnv that was sent
C8_Witness ==
    /\ fr[0].pc = "thrown" /\ fr[0].err = 24
    /\ fr[0].dsent = <<[tag |-> "BlacklistHostEnv", id |-> 7, exit |-> 0,
                        ok |-> TRUE]>>

\* what was sent after the CompileFile
AfterCompile(sent) ==
    LET k == CHOOSE k \in DOMAIN sent : sent[k] = "CompileFile" IN
    SubSeq(sent, k + 1, Len(sent))

\* C9: on the remote channel CompileFile is sent once, then FileChunk
\* messages, then one End, and the frame waits for the CompileResult only
\* when CompileFile and the trailing End were sent
C9_CompileOrder ==
    LET f == fr[0]
        n == Cardinality({k \in DOMAIN f.sent : f.sent[k] = "CompileFile"}) IN
    /\ n <= 1
    /\ n = 1 => AfterCompile(f.sent) \in
                   {<<>>, <<"FileChunk">>, <<"End">>, <<"FileChunk", "End">>}
    /\ f.pc = "await_result" =>
          /\ n = 1
          /\ f.sent[Len(f.sent)] = "End"

\* the frame waits for the result of a compile whose source was sent in chunks
C9_Witness ==
    /\ fr[0].pc = "await_result"
    /\ fr[0].sent = <<"CompileFile", "FileChunk", "End">>

\* C10: a frame runs only on an assignment the daemon returned, what it dials
\* is the host and port of that assignment, and after error 1 the slot has
\* no frame and no child
C10_DialsAssignedHost ==
    /\ \A p \in Slots :
         LET f == fr[p] IN
         /\ (f.pc # "idle" /\ f.usecs # NoUse) => f.usecs \in Assignments(p)
         /\ f.peer # NoPeer =>
               /\ f.usecs \in Assignments(p)
               /\ f.peer = <<f.usecs.host, f.usecs.port>>
         /\ f.ch = "open" => f.peer # NoPeer \/ f.usecs = NoUse
    /\ (drv.pc = "thrown" /\ drv.err = 1) =>
         /\ fr[drv.i].pc = "idle" /\ fr[drv.i].peer = NoPeer
         /\ kid[drv.i].st = "none"

\* a replica child holds a channel to the host its assignment names
C10_Witness ==
    /\ Replicated
    /\ \E p \in Slots \ {0} :
         /\ fr[p].ch = "open" /\ fr[p].peer = <<"h1", 1>>
         /\ fr[p].usecs.host = "h1" /\ fr[p].usecs.job_id = 7 + p

---------------------------------------------------------------------------
(* The local daemon's channel in the replicated build.                     *)

\* the positions of a frame whose step is a send on the local daemon's channel
DaemonPcs == {"local_send", "jobdone", "blacklist"}

\* the child of slot p is at a send on the local daemon's channel
OnDaemonChannel(p) == kid[p].st = "running" /\ fr[p].pc \in DaemonPcs

\* the parent is in the setup loop, at get_server(local_daemon) for slot drv.i
ParentReceives == drv.pc = "setup"

\* C11: in the replicated build, while the parent is at get_server for a
\* later slot no child is at a send on the local daemon's channel, and no
\* two children are at a send on it together
C11_DaemonChannelExclusive ==
    Replicated =>
        /\ ParentReceives => \A p \in Slots : ~OnDaemonChannel(p)
        /\ \A p, q \in Slots :
              (OnDaemonChannel(p) /\ OnDaemonChannel(q)) => p = q

---------------------------------------------------------------------------
(* The remote channel of a frame.                                          *)

\* the positions of a frame whose step sends or reads on the remote channel
ChannelPcs ==
    {"env_start", "stream", "env_end", "verify_send", "verify_wait",
     "send_compile", "send_end", "await_result", "recv", "catch"}

\* C12: a frame closes its remote channel at most once and is never at a
\* send or a read on a channel that is not open; when the frame has raised
\* an error or returned, the channel it opened is closed, and on the error
\* path it was closed by the handler after a read that found nothing pending
C12_DrainThenCloseOnce ==
    LET f == fr[0] IN
    /\ f.closes <= 1
    /\ f.closes = 1 <=> f.ch = "closed"
    /\ f.pc \in ChannelPcs => f.ch = "open" /\ f.closes = 0
    /\ f.pc \in {"thrown", "returned"} => f.ch # "open"
    /\ (f.pc = "thrown" /\ f.ch = "closed") => f.quiet
    /\ f.quiet => f.pc = "thrown" /\ f.ch = "closed"
    /\ f.drained > 0 => f.pc \in {"catch", "thrown"}

\* the frame raised error 13 after the handler read one pending message,
\* found nothing more and closed the channel
C12_Witness ==
    /\ fr[0].pc = "thrown" /\ fr[0].err = 13
    /\ fr[0].drained = 1 /\ fr[0].quiet
    /\ fr[0].ch = "closed" /\ fr[0].closes = 1

---------------------------------------------------------------------------
(* get_absfilename, on strings over a slash, a dot and a letter.           *)

Chars == {"/", ".", "a"}

\* the strings of at most n characters
Strs(n) == UNION {[1 .. k -> Chars] : k \in 0 .. n}

\* what getcwd leaves in the buffer: the root, a directory, or the empty
\* string of the zeroed buffer when getcwd fails
Cwds == {<<"/">>, <<"/", "a">>, <<>>}

\* string::find: the first position of pat in s, 0 for npos
Find(s, pat) ==
    LET at == {i \in 1 .. (Len(s) - Len(pat) + 1) :
                  SubSeq(s, i, i + Len(pat) - 1) = pat} IN
    IF at = {} THEN 0 ELSE CHOOSE i \in at : \A j \in at : i <= j

\* file.replace(idx, n, "/")
Replace(s, idx, n) ==
    SubSeq(s, 1, idx - 1) \o <<"/">> \o SubSeq(s, idx + n, Len(s))

\* one replacement of the first occurrence, when there is one
ReplaceOnce(s, pat) ==
    LET idx == Find(s, pat) IN
    IF idx = 0 THEN s ELSE Replace(s, idx, Len(pat))

\* idx = file.find(pat); while (idx != npos) { replace; idx = file.find(pat); }
RECURSIVE ReplaceAll(_, _)
ReplaceAll(s, pat) ==
    LET idx == Find(s, pat) IN
    IF idx = 0 THEN s ELSE ReplaceAll(Replace(s, idx, Len(pat)), pat)

DotDot == <<"/", ".", ".">>

DotSlash == <<"/", ".", "/">>

SlashSlash == <<"/", "/">>

\* the path made absolute with the working directory, then the three loops
get_absfilename(file, cwd) ==
    IF file = <<>> THEN file
    ELSE LET abs == IF file[1] # "/" THEN cwd \o <<"/">> \o file ELSE file IN
         ReplaceAll(ReplaceAll(ReplaceAll(abs, DotDot), DotSlash), SlashSlash)

\* the driver, its frames and the files while a helper is called on its own
Parked ==
    /\ job = [torepeat |-> 1, streaming |-> FALSE, split_dwarf |-> FALSE,
              old |-> FALSE]
    /\ fs = InitFs(FALSE)
    /\ fr = [p \in Slots |-> NoFrame]
    /\ drv = NoDrv
    /\ kid = [p \in Slots |-> NoKid]

InitPath ==
    /\ Parked
    /\ \E file \in Strs(MaxPathLen), cwd \in Cwds :
          call = [pc |-> "in", file |-> file, cwd |-> cwd, out |-> <<>>,
                  again |-> <<>>]

\* get_absfilename(file)
Canonicalise ==
    /\ call.pc = "in"
    /\ call' = [call EXCEPT !.pc = "once",
                            !.out = get_absfilename(call.file, call.cwd)]
    /\ UNCHANGED <<job, fs, fr, drv, kid>>

\* get_absfilename of the result, in any working directory
Recanonicalise ==
    /\ call.pc = "once"
    /\ \E cwd \in Cwds :
          call' = [call EXCEPT !.pc = "twice",
                               !.again = get_absfilename(call.out, cwd)]
    /\ UNCHANGED <<job, fs, fr, drv, kid>>

NextPath == Canonicalise \/ Recanonicalise

SpecPath == InitPath /\ [][NextPath]_vars

\* C13: the result of get_absfilename holds no "/..", no "/./" and no "//",
\* and get_absfilename of the result is the result
C13_AbsfilenameFixpoint ==
    /\ call.pc \in {"once", "twice"} =>
          /\ Find(call.out, DotDot) = 0
          /\ Find(call.out, DotSlash) = 0
          /\ Find(call.out, SlashSlash) = 0
    /\ call.pc = "twice" => call.again = call.out

\* "./../" in the directory /a: each of the three loops rewrites, the result
\* is "/a/" and stays "/a/"
C13_Witness ==
    /\ call.pc = "twice"
    /\ call.file = <<".", "/", ".", ".", "/">> /\ call.cwd = <<"/", "a">>
    /\ call.out = <<"/", "a", "/">> /\ call.again = call.out

---------------------------------------------------------------------------
(* parse_icecc_version and rip_out_paths.  A file name is a sequence of    *)
(* pieces: directories, a stem, and the pieces of its suffix.              *)

\* the files ICECC_VERSION may name, with what access and lstat report
Files ==
    { [name |-> <<"e", ".tar", ".gz">>, readable |-> TRUE, regular |-> TRUE,
       size |-> MinSize],
      [name |-> <<"d/", "f", ".tgz">>, readable |-> TRUE, regular |-> TRUE,
       size |-> MinSize],
      [name |-> <<"g">>, readable |-> TRUE, regular |-> TRUE, size |-> MinSize],
      [name |-> <<".tgz">>, readable |-> TRUE, regular |-> TRUE,
       size |-> MinSize],
      [name |-> <<"s", ".tar">>, readable |-> TRUE, regular |-> TRUE,
       size |-> MinSize - 1],
      [name |-> <<"u", ".tar", ".bz2">>, readable |-> FALSE, regular |-> TRUE,
       size |-> MinSize],
      [name |-> <<"l", ".tar">>, readable |-> TRUE, regular |-> FALSE,
       size |-> MinSize] }

Names == {f.name : f \in Files}

Stat(name) == CHOOSE f \in Files : f.name = name

Platforms == {"p", "q"}

\* what follows '=' in an item: "none" when the item has no '='
Tags == {"none", "", "x"}

\* one item of ICECC_VERSION, [platform:]file[=prefix]; plat is "" when the
\* item has no colon
Items == [plat : {"", "p"}, name : Names, tag : Tags]

ItemLists == UNION {[1 .. k -> Items] : k \in 0 .. MaxItems}

\* bool def_targets = icecc_version.find('=') != string::npos
DefTargets(items) == \E k \in DOMAIN items : items[k].tag # "none"

\* string platform = target_platform, or what precedes the colon
PlatformOf(it, target) == IF it.plat = "" THEN target ELSE it.plat

\* the prefix rule of an item
Selected(it, def, prefix) ==
    IF ~def THEN TRUE
    ELSE IF it.tag # "none" THEN it.tag = prefix
    ELSE prefix = ""

\* the platforms of a list of (platform, file) pairs
Keys(envs) == {envs[j][1] : j \in DOMAIN envs}

\* access(R_OK); lstat, S_ISREG, st_size
Installable(name) ==
    /\ Stat(name).readable
    /\ Stat(name).regular /\ Stat(name).size >= MinSize

\* the loop of parse_icecc_version from item k on
RECURSIVE ParseFrom(_, _, _, _, _)
ParseFrom(items, k, target, prefix, envs) ==
    IF k > Len(items) THEN envs
    ELSE LET it == items[k]
             platform == PlatformOf(it, target)
             keep == /\ Selected(it, DefTargets(items), prefix)
                     /\ platform \notin Keys(envs)
                     /\ Installable(it.name) IN
         ParseFrom(items, k + 1, target, prefix,
                   IF keep THEN Append(envs, <<platform, it.name>>) ELSE envs)

parse_icecc_version(items, target, prefix) ==
    ParseFrom(items, 1, target, prefix, <<>>)

\* static const char *suffs[]
Suffs == << <<".tar", ".bz2">>, <<".tar", ".gz">>, <<".tar">>, <<".tgz">> >>

\* orig ends with suff
EndsIn(orig, suff) ==
    /\ Len(orig) >= Len(suff)
    /\ SubSeq(orig, Len(orig) - Len(suff) + 1, Len(orig)) = suff

\* endswith(orig, suff, ret): orig.size() > len and the tail is suff
endswith(orig, suff) == Len(orig) > Len(suff) /\ EndsIn(orig, suff)

\* ret = orig.substr(0, orig.size() - len)
Stripped(orig, suff) == SubSeq(orig, 1, Len(orig) - Len(suff))

\* find_basename: what follows the last directory
find_basename(path) ==
    LET dirs == {k \in DOMAIN path : path[k] = "d/"} IN
    IF dirs = {} THEN path
    ELSE SubSeq(path, (CHOOSE k \in dirs : \A j \in dirs : j <= k) + 1, Len(path))

\* the suffixes, in order, for one entry
RECURSIVE RipEntry(_, _, _)
RipEntry(e, i, r) ==
    IF i > Len(Suffs) THEN r
    ELSE RipEntry(e, i + 1,
            IF endswith(e[2], Suffs[i])
            THEN LET versfile == find_basename(Stripped(e[2], Suffs[i])) IN
                 [env2 |-> Append(r.env2, <<e[1], versfile>>),
                  version_map |-> (e[1] :> versfile) @@ r.version_map,
                  versionfile_map |-> (e[1] :> e[2]) @@ r.versionfile_map]
            ELSE r)

\* the loop of rip_out_paths from entry j on
RECURSIVE RipFrom(_, _, _)
RipFrom(envs, j, r) ==
    IF j > Len(envs) THEN r ELSE RipFrom(envs, j + 1, RipEntry(envs[j], 1, r))

\* the maps are empty at the call (build_remote declares them)
rip_out_paths(envs) ==
    RipFrom(envs, 1, [env2 |-> <<>>, version_map |-> <<>>,
                      versionfile_map |-> <<>>])

InitEnv ==
    /\ Parked
    /\ \E items \in ItemLists, target \in Platforms, prefix \in {"", "x"} :
          call = [pc |-> "in", items |-> items, target |-> target,
                  prefix |-> prefix, envs |-> <<>>,
                  ripped |-> rip_out_paths(<<>>)]

ParseVersion ==
    /\ call.pc = "in"
    /\ call' = [call EXCEPT !.pc = "parsed",
                   !.envs = parse_icecc_version(call.items, call.target,
                                                call.prefix)]
    /\ UNCHANGED <<job, fs, fr, drv, kid>>

RipOutPaths ==
    /\ call.pc = "parsed"
    /\ call' = [call EXCEPT !.pc = "ripped", !.ripped = rip_out_paths(call.envs)]
    /\ UNCHANGED <<job, fs, fr, drv, kid>>

NextEnv == ParseVersion \/ RipOutPaths

SpecEnv == InitEnv /\ [][NextEnv]_vars

\* an item passes every check: selected by the prefix rule, readable, a
\* regular file of at least 500 bytes, a name that is more than a suffix and
\* ends in one of the suffixes
Accepted(it) ==
    /\ Selected(it, DefTargets(call.items), call.prefix)
    /\ Installable(it.name)
    /\ \E i \in DOMAIN Suffs : endswith(it.name, Suffs[i])

\* the items of a platform that pass every check, by position
AcceptedAt(pl) ==
    {k \in DOMAIN call.items :
        PlatformOf(call.items[k], call.target) = pl /\ Accepted(call.items[k])}

\* C14: after parse_icecc_version and rip_out_paths the catalog has at most
\* one entry per platform; a platform has an entry exactly when one of its
\* items passes every check, and the entry is the first such item; the
\* catalog and the two maps have the same platforms
C14_CatalogFirstAccepted ==
    call.pc = "ripped" =>
        LET r == call.ripped IN
        /\ \A pl \in Platforms :
              LET at == AcceptedAt(pl)
                  entries == {j \in DOMAIN r.env2 : r.env2[j][1] = pl} IN
              /\ Cardinality(entries) <= 1
              /\ IF at = {} THEN entries = {}
                 ELSE LET first == CHOOSE k \in at : \A j \in at : k <= j IN
                      /\ entries # {}
                      /\ r.versionfile_map[pl] = call.items[first].name
        /\ DOMAIN r.version_map = Keys(r.env2)
        /\ DOMAIN r.versionfile_map = Keys(r.env2)

---------------------------------------------------------------------------
(* The recoverable errors of build_remote_int.                             *)

Recoverable == {101, 102}

\* C15: a frame that received a CompileResult with a non-zero status and the
\* out-of-memory flag raises error 101, with no diagnostics written and no
\* artifact received; a frame raises 101 or 102 only after it received a
\* CompileResult, 101 only for a failed compile that ran out of memory
C15_OomIsRecoverable ==
    LET f == fr[0] IN
    /\ f.oom =>
          /\ f.pc \in {"catch", "thrown"} /\ f.err = 101
          /\ ~f.diag
          /\ f.obj = NoFile /\ f.dwo = NoFile /\ f.got = <<>>
          /\ fs[IceTmp(Out(0))] = Pristine(IceTmp(Out(0)))
    /\ (f.pc \in {"catch", "thrown"} /\ f.err \in Recoverable) =>
          /\ f.result
          /\ ~f.diag /\ f.obj = NoFile
          /\ f.err = 101 => f.oom /\ f.status # 0
          /\ f.err = 102 => f.output
    /\ f.result => f.status # 255
    /\ (drv.pc = "thrown" /\ drv.err \in Recoverable) => f.result

\* the driver raised error 101 after a CompileResult with status 1 and the
\* out-of-memory flag
C15_Witness ==
    /\ drv.pc = "thrown" /\ drv.err = 101
    /\ fr[0].result /\ fr[0].oom /\ fr[0].status = 1 /\ ~fr[0].diag

---------------------------------------------------------------------------
(* The errors of the driver.                                               *)

\* local_daemon->send_msg(getcs) returned false
GetCSFailed == drv.asked = "failed"

\* C16: when the send of GetCS fails, the driver raises error 24, in the
\* single build and in the replicated build
C16_GetCSFailureIs24 == GetCSFailed => drv.pc = "thrown" /\ drv.err = 24

---------------------------------------------------------------------------
(* The replica children at the end of build_remote.                        *)

\* the child of slot p was forked and the parent has not waited for it
Unreaped(p) == kid[p].st \in {"running", "exited", "signaled"}

\* the replicated build has returned or raised
ReplEnded == Replicated /\ drv.pc \in {"returned", "thrown"}

\* C17: when the replicated build returns or raises, every forked child has
\* terminated and the parent has waited for it
C17_AllChildrenReaped == ReplEnded => \A p \in Slots : ~Unreaped(p)

\* C18: a child that ended by a signal and was waited for has set
\* misc_error, the reconciliation is reached only when no child ended by a
\* signal, and when the driver raises error 27 the output of slot 0 and,
\* with dwarf fission, its .dwo do not exist
C18_MiscErrorRemovesOutput ==
    Replicated =>
        /\ (\E p \in Slots : kid[p].st = "buried") => drv.misc_error
        /\ drv.pc = "reconcile" =>
              \A p \in Slots : kid[p].st \notin {"signaled", "buried"}
        /\ (drv.pc = "thrown" /\ drv.err = 27) =>
              /\ fs[Out(0)] = NoFile
              /\ job.split_dwarf => fs[DwoOf(Out(0))] = NoFile

\* C19: a frame that raised an error after the preprocessor was started has
\* waited for the preprocessor
C19_PreprocessorReaped ==
    (fr[0].pc = "thrown" /\ fr[0].cpp # "none") => fr[0].cpp = "reaped"

\* C20: when the replicated build returns 0, no slot i >= 1 that exited 0
\* as slot 0 did has an empty digest, and the digest of slot 0 is not empty
\* then either
C20_EmptyDigestNeverEqual ==
    (Replicated /\ drv.pc = "returned" /\ drv.ret = 0) =>
        \A i \in Slots \ {0} :
            (Recorded(0) = 0 /\ Recorded(i) = 0) =>
                drv.md5s[0] # <<>> /\ drv.md5s[i] # <<>>

---------------------------------------------------------------------------
(* The source streamer after a send that failed.                           *)

\* C21: a frame whose send of a FileChunk failed has read the channel once,
\* closed the source descriptor and is raising error 15, whatever the read
\* returned
C21_SendFailureRaises15 ==
    LET f == fr[0] IN
    f.reply # "none" =>
        /\ f.pc \in {"catch", "thrown"} /\ f.err = 15
        /\ f.fd = "closed"

---------------------------------------------------------------------------
(* Hosts that cannot be verified.                                          *)

\* what the environment shipper sends before VerifyEnv
Shipped == {<<"EnvTransfer", "End">>, <<"EnvTransfer", "FileChunk", "End">>}

\* one step of a frame from f to g
UnverifiedStep(f, g) ==
    /\ (f.pc = "send_compile" /\ f.unverified) => g.pc = "catch" /\ g.err = 26
    /\ f.unverified => g.unverified
    /\ g.unverified =>
          /\ ~Sent(g, "CompileFile") /\ ~g.result
          /\ g.pc # "returned" /\ g.obj = NoFile
    /\ g.verified => g.pc = "send_compile" /\ g.proto31
    /\ (Sent(g, "CompileFile") /\ ~Sent(f, "CompileFile")) =>
          /\ f.pc = "send_compile" /\ ~f.unverified
          /\ g.sent = Append(f.sent, "CompileFile")
          /\ f.usecs.got_env => f.sent = <<>>
          /\ (~f.usecs.got_env /\ ~f.proto31) => f.sent \in Shipped
          /\ (~f.usecs.got_env /\ f.proto31) =>
                /\ f.verified
                /\ f.sent \in {s \o <<"VerifyEnv">> : s \in Shipped}

\* C22: a frame whose remote speaks a protocol before 31 while unverified
\* hosts are refused raises error 26 when it comes to the compile request,
\* with or without a transfer of the environment before, and never sends
\* CompileFile, receives no result and does not return; a frame that had to
\* transfer the environment to a remote of protocol 31 sends CompileFile only
\* after EnvTransfer, the chunks, End, VerifyEnv and a VerifyEnvResult that
\* was ok, in that order
C22_UnverifiedNeverCompiles == [][UnverifiedStep(fr[0], fr'[0])]_vars

\* the frame raised error 26 on a channel that could not be verified
C22_Witness ==
    /\ fr[0].pc = "thrown" /\ fr[0].err = 26 /\ fr[0].unverified
    /\ fr[0].ch = "closed" /\ fr[0].status = 255

---------------------------------------------------------------------------
(* The preprocessor of the single build.                                   *)

\* waitpid gave a non-zero exit code of the preprocessor, and no
\* CompileResult has overwritten status since
CppFailed(f) == f.cpp = "reaped" /\ ~f.result /\ f.status # 0

\* C23: once the preprocessor of a build that is neither streaming nor given
\* a preprocessed file was waited for with a non-zero exit code, the frame
\* has returned that code with no error raised and the channel closed once,
\* not by the handler; it is never at the trailing End or at the wait for
\* the CompileResult, has received no result and no artifact and has
\* written no temp file, and the driver returns the same code
C23_PreprocessorExitReturned ==
    LET f == fr[0] IN
    CppFailed(f) =>
        /\ ~f.streaming /\ ~f.preproc
        /\ f.pc = "returned" /\ f.ret = f.status /\ f.err = 0
        /\ f.ch = "closed" /\ f.closes = 1 /\ ~f.quiet /\ f.drained = 0
        /\ ~f.diag /\ f.obj = NoFile /\ f.dwo = NoFile /\ f.got = <<>>
        /\ fs[IceTmp(Out(0))] = Pristine(IceTmp(Out(0)))
        /\ fs[Out(0)] \in {Pristine(Out(0))} \cup
               (IF f.nlocal > 0 THEN {LocalObj} ELSE {})
        /\ drv.pc \in {"exec", "returned"}
        /\ drv.pc = "returned" => drv.ret = f.status

\* the preprocessor exited with 1 after its output was sent, and the driver
\* returned 1
C23_Witness ==
    /\ fr[0].cpp = "reaped" /\ fr[0].status = 1 /\ ~fr[0].result
    /\ fr[0].fd = "closed" /\ fr[0].pc = "returned"
    /\ drv.pc = "returned" /\ drv.ret = 1

---------------------------------------------------------------------------
(* One replica child followed step by step: the child of slot p after the  *)
(* fork, with the preprocessed source in place and its own output path,    *)
(* while the parent is in its loops.  The frame stays readable when the    *)
(* child has ended.                                                        *)

InitSlot ==
    /\ \E d \in BOOLEAN, old \in BOOLEAN :
          /\ job = [torepeat |-> Replicas, streaming |-> FALSE,
                    split_dwarf |-> d, old |-> old]
          /\ \E p \in Slots :
                /\ fs = AllocOutput([InitFs(old) EXCEPT ![Preproc] = OldData], p)
                /\ \E m \in Assignments(p) :
                      fr = [q \in Slots |->
                              IF q = p THEN StartFrame(m, p, TRUE, p = 0)
                              ELSE NoFrame]
                /\ kid = [q \in Slots |->
                            IF q = p THEN [NoKid EXCEPT !.st = "running"]
                            ELSE NoKid]
    /\ drv = [NoDrv EXCEPT !.pc = "setup", !.asked = "sent"]
    /\ call = NoCall

\* one step of the child of slot p
Replica(p) ==
    /\ kid[p].st = "running"
    /\ \E s \in Steps(fr[p], fs) :
          /\ fr' = [fr EXCEPT ![p] = s[1]]
          /\ fs' = s[2]
          /\ kid' = [kid EXCEPT ![p] = ChildExit(s[1])]
    /\ UNCHANGED <<call, job, drv>>

NextSlot == \E p \in Slots : Replica(p)

SpecSlot == InitSlot /\ [][NextSlot]_vars

---------------------------------------------------------------------------
(* The artifacts of the single build.                                      *)

\* the positions of a frame inside receive_file / receive_fd
RecvPcs == {"recv_open", "recv", "recv_close"}

\* C25: a frame is inside the receive of an artifact only after a
\* CompileResult with status 0; after a CompileResult with another status it
\* has returned that status, or is raising error 101 or 102, with no
\* artifact received and no temp file written; the .dwo is received only
\* when it was announced and the job is not streaming, after the object was
\* received and published, and a build that returns 0 has received the .dwo
\* exactly when it was announced
C25_ArtifactsOnlyOnSuccess ==
    LET f == fr[0]
        tmp == IceTmp(Out(0))
        dwo == DwoOf(Out(0)) IN
    /\ f.pc \in RecvPcs => f.result /\ f.status = 0
    /\ (f.result /\ f.status # 0) =>
          /\ f.pc \in {"returned", "catch", "thrown"}
          /\ f.pc = "returned" => f.ret = f.status
          /\ f.pc \in {"catch", "thrown"} => f.err \in Recoverable
          /\ f.obj = NoFile /\ f.dwo = NoFile /\ f.got = <<>>
          /\ fs[tmp] = Pristine(tmp) /\ fs[IceTmp(dwo)] = NoFile
    /\ f.pc \in RecvPcs => (f.streaming <=> ~ToFile(f))
    /\ f.streaming =>
          /\ f.dwo = NoFile /\ ~f.have_dwo
          /\ fs[tmp] = Pristine(tmp) /\ fs[IceTmp(dwo)] = NoFile
    /\ f.target = dwo =>
          /\ f.have_dwo /\ ~f.streaming
          /\ f.obj # NoFile /\ fs[Out(0)] = f.obj /\ fs[tmp] = NoFile
    /\ f.dwo # NoFile =>
          /\ f.obj # NoFile /\ ~f.streaming
          /\ f.pc \notin {"catch", "thrown"} => f.have_dwo
    /\ (f.pc = "returned" /\ f.result /\ f.status = 0 /\ ~f.streaming) =>
          /\ f.obj # NoFile
          /\ f.have_dwo <=> f.dwo # NoFile
          /\ ~f.have_dwo => fs[dwo] = NoFile

\* the remote compile failed with status 1: the driver returned 1 and the
\* temp file of an earlier run was not opened
C25_Witness ==
    /\ fr[0].result /\ fr[0].status = 1 /\ fr[0].pc = "returned"
    /\ drv.pc = "returned" /\ drv.ret = 1
    /\ job.old /\ fs[IceTmp(Out(0))] = OldData

---------------------------------------------------------------------------
(* The preprocessed temp file of the replicated build.                     *)

\* C26: when the replicated build returns or raises, no file exists under
\* the name of the preprocessed temp file
C26_PreprocGone == ReplEnded => fs[Preproc] = NoFile

---------------------------------------------------------------------------
(* Termination.  Every call on a channel returns, the remote sends finitely *)
(* many messages and every subprocess ends: a process that can take a step  *)
(* takes one.  The files a build finds and dwarf fission change what is     *)
(* unlinked and renamed, not which steps are taken: the builds start in an  *)
(* empty directory, without dwarf fission.                                  *)

InitLive ==
    /\ \E t \in {1, Replicas}, s \in BOOLEAN :
          /\ t = Replicas => ~s
          /\ job = [torepeat |-> t, streaming |-> s, split_dwarf |-> FALSE,
                    old |-> FALSE]
    /\ fs = InitFs(FALSE)
    /\ fr = [p \in Slots |-> NoFrame]
    /\ drv = NoDrv
    /\ kid = [p \in Slots |-> NoKid]
    /\ call = NoCall

SpecLive == InitLive /\ [][NextAll]_vars /\ WF_vars(NextAll)

\* build_remote has returned, raised or left the process, no child is
\* running and no frame is inside maybe_build_local or build_remote_int
Ended ==
    /\ drv.pc \in {"returned", "thrown", "exited"}
    /\ \A p \in Slots :
          /\ kid[p].st # "running"
          /\ fr[p].pc \in {"idle", "returned", "thrown", "exit"}

\* C27: every run of the single build and of the replicated build comes to
\* its end: the driver has returned or raised, every frame has returned,
\* raised or left the process, and every child has ended
C27_EveryRunEnds == <>Ended

\* the replicated build returned 0 after it waited for three children that
\* each received an object of one chunk
C27_Witness ==
    /\ Ended /\ Replicated /\ drv.pc = "returned" /\ drv.ret = 0
    /\ \A p \in Slots : kid[p].st = "reaped" /\ drv.md5s[p] = <<"md5", <<1>>>>

=============================================================================
